---- MODULE Spec2Model ----
(***************************************************************************)
(* Model of PersistentClaudeManager (src/src/claude/persistent.py): the    *)
(* table of persistent subprocesses keyed by (user_id, thread_id) and the  *)
(* coroutines that create, use, interrupt and kill them.                   *)
(*                                                                         *)
(* The manager runs on one asyncio event loop.  A coroutine runs without   *)
(* interruption from one suspension point (an await that really waits) to  *)
(* the next, so every action below is one such run of one coroutine.       *)
(* A session object is created together with its process and never gets    *)
(* another one, so both are identified by the same number.                 *)
(*                                                                         *)
(* Beside the manager, the model has the table of active-session pointers  *)
(* of SQLiteSessionStorage (src/src/storage/session_storage.py) and the    *)
(* command handlers that use it (src/src/bot/handlers/command.py).         *)
(***************************************************************************)
EXTENDS Integers, Sequences, FiniteSets, TLC

\* ---- bounds of the model
NTasks   == 2      \* coroutines that can be active at the same time
MaxProcs == 2      \* subprocesses that exist at the same time
MaxTableProcs == 3 \* the same, for overlapping calls on two keys
MaxMsgs  == 2      \* completed exchanges per session, one caller at a time
MaxConcMsgs == 1   \* completed exchanges per session, concurrent callers
claude_timeout_seconds == 2  \* self.config.claude_timeout_seconds, in ticks
MaxElapsed == 4    \* ticks counted since a request was written

\* ---- program constants
DefaultContextWindow == 200000

Tasks == 1..NTasks
Procs == 1..MaxTableProcs
Keys  == {"k1", "k2"}            \* (user_id, thread_id) pairs
Dirs  == {"d1", "d2"}            \* working directories
NoSid == "none"                  \* session_id None (or any falsy value)
Sids  == {"s1", "s2"}            \* session ids
NoProc == 0
Null == -1                       \* thread_id None, NULL in the table
Users == {7, 8}                  \* user ids
ThreadIds == {Null, 0, 5}        \* thread ids

\* Result events the subprocess can emit (the fields _read_response reads).
\* size = 0 : context_window_size not reported; usage = << >> : no usage block.
\* cost_usd is counted in cents.
Results ==
  { [result |-> "Hello", session_id |-> "s1", cost_usd |-> 1, size |-> 0,
     usage |-> <<30, 15, 5>>],
    [result |-> "Bye", session_id |-> NoSid, cost_usd |-> 0, size |-> 100000,
     usage |-> << >>] }

VARIABLES
  sessions,    \* self.sessions: key -> session (NoProc: key not in the dict)
  order,       \* insertion order of the keys of self.sessions
  proc,        \* the subprocesses launched and not yet forgotten
  sess,        \* the PersistentSession objects, by process number
  cleanupLock, \* self._cleanup_lock: the task holding it, or 0
  task,        \* the coroutines: position and local variables
  store,       \* the rows of the table user_active_sessions
  user_data,   \* context.user_data["claude_session_id"], by user
  call         \* the coroutines of the storage and of the command handlers

vars == <<sessions, order, proc, sess, cleanupLock, task, store, user_data,
          call>>

\* ---- records
NoResp == [content |-> "", session_id |-> NoSid, cost |-> 0,
           context_tokens_used |-> 0, context_tokens_max |-> 0]

NoOut == [kind |-> "none", err |-> "", session |-> NoProc, flag |-> FALSE,
          resp |-> NoResp]

IdleTask == [pc |-> "idle", op |-> "none", key |-> "k1", wd |-> "d1",
             sid |-> NoSid, s |-> NoProc, kkey |-> "k1", kp |-> NoProc,
             kret |-> "none", snap |-> << >>, seen |-> {}, out |-> NoOut,
             waited |-> 0, elapsed |-> 0]

\* no pointer: get_user_active_session returns None
NoPointer == << >>

IdleCall == [pc |-> "idle", op |-> "none", user_id |-> 7, thread_id |-> Null,
             session_id |-> NoSid, project_path |-> "d1", out |-> NoPointer,
             current_dir |-> "d1"]

NoProcRec == [state |-> "none", key |-> "k1", resume |-> NoSid,
              stdout |-> << >>]

NoSessRec == [session_id |-> NoSid, working_directory |-> "d1", lock |-> 0,
              context_tokens_used |-> 0, context_tokens_max |-> 0,
              total_cost |-> 0, message_count |-> 0]

\* the whole state, as the value the code of one action transforms
Now == [sessions |-> sessions, order |-> order, proc |-> proc, sess |-> sess,
        cleanupLock |-> cleanupLock, task |-> task]

\* process.returncode is None: the loop has not yet seen the process exit
ReturncodeNone(m, p) == m.proc[p].state \in {"live", "dying"}

Remove(seq, k) == SelectSeq(seq, LAMBDA x : x # k)

Init ==
  /\ sessions = [k \in Keys |-> NoProc]
  /\ order = << >>
  /\ proc = [p \in Procs |-> NoProcRec]
  /\ sess = [p \in Procs |-> NoSessRec]
  /\ cleanupLock = 0
  /\ task = [t \in Tasks |-> IdleTask]
  /\ store = {}
  /\ user_data = [u \in Users |-> NoSid]
  /\ call = [c \in Tasks |-> IdleCall]


\* ---- a session object nothing refers to any more is forgotten, and so is
\* a process that has exited and that nothing refers to
Referenced(m, p) ==
  \/ \E k \in Keys : m.sessions[k] = p
  \/ \E t \in Tasks : \/ m.task[t].s = p
                      \/ m.task[t].kp = p
                      \/ m.task[t].out.session = p

Collect(m) ==
  LET gone == {p \in Procs :
                 ~Referenced(m, p) /\ m.proc[p].state = "exited"}
  IN
  [m EXCEPT
     !.sess = [p \in Procs |->
                 IF Referenced(m, p) THEN m.sess[p] ELSE NoSessRec],
     !.proc = [p \in Procs |->
                 IF p \in gone THEN NoProcRec ELSE m.proc[p]],
     !.task = [t \in Tasks |-> [m.task[t] EXCEPT !.seen = @ \ gone]]]

\* the state after an action
Commit(m) ==
  LET n == Collect(m) IN
  /\ sessions' = n.sessions
  /\ order' = n.order
  /\ proc' = n.proc
  /\ sess' = n.sess
  /\ cleanupLock' = n.cleanupLock
  /\ UNCHANGED <<store, user_data, call>>
  /\ task' = n.task

\* ---- the dict self.sessions
\* del self.sessions[k]
DelKey(m, k) ==
  [m EXCEPT !.sessions[k] = NoProc, !.order = Remove(m.order, k)]

\* self.sessions[k] = session p
PutKey(m, k, p) ==
  [m EXCEPT !.sessions[k] = p,
            !.order = IF m.sessions[k] = NoProc THEN Append(m.order, k)
                      ELSE m.order]

\* ---- outcomes of a call by task t
\* the locks task t holds are released when its call ends (async with)
Unlock(m, t) ==
  [m EXCEPT
     !.sess = [p \in Procs |-> IF m.sess[p].lock = t
                                 THEN [m.sess[p] EXCEPT !.lock = 0]
                                 ELSE m.sess[p]],
     !.cleanupLock = IF m.cleanupLock = t THEN 0 ELSE m.cleanupLock]

\* the call of task t is over: all that is left of it is its arguments and
\* its outcome
Over(m, t) ==
  LET tr == m.task[t] IN
  [Unlock(m, t) EXCEPT
     !.task[t] = [IdleTask EXCEPT !.pc = "done", !.op = tr.op, !.key = tr.key,
                                  !.wd = tr.wd, !.sid = tr.sid,
                                  !.seen = tr.seen]]

Return(m, t) == [Over(m, t) EXCEPT !.task[t].out.kind = "ret"]

Raise(m, t, e) ==
  [Over(m, t) EXCEPT !.task[t].out.kind = "err", !.task[t].out.err = e]

\* ---- kill_session (lines 324-335)
\* kill_session without "await session.process.wait()"
KillSyncNoWait(m, k) ==
  LET p == m.sessions[k] IN
  IF p = NoProc
    THEN [m |-> m, wait |-> FALSE, kp |-> NoProc]
    ELSE [m |-> DelKey([m EXCEPT !.proc[p].state =
                          IF @ = "exited" THEN @ ELSE "dying"], k),
          wait |-> FALSE, kp |-> p]

\* kill_session(k) up to its first suspension.  process.kill() signals a
\* process whose exit the loop has not seen; process.wait() suspends until the
\* loop has seen it.  On a process already seen to exit, kill() signals
\* nothing, wait() does not suspend, and the entry is deleted at once.
KillSync(m, k) ==
  LET p == m.sessions[k] IN
  IF p = NoProc
    THEN [m |-> m, wait |-> FALSE, kp |-> NoProc]
    ELSE IF m.proc[p].state = "exited"
      THEN [m |-> DelKey(m, k), wait |-> FALSE, kp |-> p]
      ELSE [m |-> [m EXCEPT !.proc[p].state = "dying"],
            wait |-> TRUE, kp |-> p]

\* the loop of kill_all_sessions over the rest of its snapshot, up to the
\* first kill_session that suspends (lines 340-341)
RECURSIVE KillLoop(_, _)
KillLoop(m, snap) ==
  IF snap = << >>
    THEN [m |-> m, wait |-> FALSE, kkey |-> "k1", kp |-> NoProc,
          snap |-> << >>]
    ELSE LET r == KillSync(m, Head(snap)) IN
         IF r.wait
           THEN [m |-> r.m, wait |-> TRUE, kkey |-> Head(snap),
                 kp |-> r.kp, snap |-> Tail(snap)]
           ELSE KillLoop(r.m, Tail(snap))

\* a kill_session called by task t has returned: the caller goes on to its
\* next suspension or to its end
AfterKill(m, t) ==
  LET kret == m.task[t].kret IN
  CASE kret = "goc" -> [m EXCEPT !.task[t].pc = "launch"]
    [] kret = "kill" -> Return(m, t)
    [] kret = "timeout" -> Raise(m, t, "Timeout")
    [] kret = "killall" ->
         LET r == KillLoop(m, m.task[t].snap) IN
         IF r.wait
           THEN [r.m EXCEPT !.task[t].pc = "kill_wait",
                            !.task[t].kkey = r.kkey,
                            !.task[t].kp = r.kp,
                            !.task[t].snap = r.snap]
           ELSE Return(r.m, t)

\* kill_session(k) called by task t, from its first line on; kret says what
\* the caller does next
KillCall(m, t, k, kret) ==
  LET r == KillSync(m, k)
      m1 == [r.m EXCEPT !.task[t].kkey = k, !.task[t].kp = r.kp,
                        !.task[t].kret = kret]
  IN IF r.wait THEN [m1 EXCEPT !.task[t].pc = "kill_wait"]
               ELSE AfterKill(m1, t)

\* ---- get_or_create_session (lines 51-112)
\* the branch taken, without the test of lines 67-75
GocDecideIdOnly(m, k, wd, sid) ==
  IF m.sessions[k] = NoProc THEN "launch"
  ELSE LET p == m.sessions[k] IN
       IF ReturncodeNone(m, p)
         THEN IF sid # NoSid /\ m.sess[p].session_id # sid THEN "kill"
              ELSE "reuse"
         ELSE "evict"

\* the branch taken, without the test of returncode (line 65): a dead entry
\* is treated as a live one
GocDecideAlive(m, k, wd, sid) ==
  IF m.sessions[k] = NoProc THEN "launch"
  ELSE LET p == m.sessions[k] IN
       IF m.sess[p].working_directory # wd THEN "kill"
       ELSE IF sid # NoSid /\ m.sess[p].session_id # sid THEN "kill"
       ELSE "reuse"

\* the branch taken (lines 62-90)
GocDecide(m, k, wd, sid) ==
  IF m.sessions[k] = NoProc THEN "launch"
  ELSE LET p == m.sessions[k] IN
       IF ReturncodeNone(m, p)
         THEN IF m.sess[p].working_directory # wd THEN "kill"
              ELSE IF sid # NoSid /\ m.sess[p].session_id # sid THEN "kill"
              ELSE "reuse"
         ELSE "evict"

\* send_message without `async with session.lock`: the request line is
\* written as soon as the session is there
GotSessionUnlocked(m, t, p) ==
  IF m.task[t].op = "goc"
    THEN [Return(m, t) EXCEPT !.task[t].out.session = p]
    ELSE [m EXCEPT !.task[t].s = p, !.task[t].wd = "d1",
                   !.task[t].sid = NoSid, !.task[t].kp = NoProc,
                   !.sess[p].lock = t, !.task[t].pc = "drain"]

\* get_or_create_session has returned session p to task t.  In send_message
\* the caller goes on to session.lock: a free lock is taken without
\* suspending and the request line is written to stdin (lines 162, 184).
GotSession(m, t, p) ==
  IF m.task[t].op = "goc"
    THEN [Return(m, t) EXCEPT !.task[t].out.session = p]
    ELSE LET m1 == [m EXCEPT !.task[t].s = p, !.task[t].wd = "d1",
                             !.task[t].sid = NoSid, !.task[t].kp = NoProc]
         IN IF m.sess[p].lock = 0
              THEN [m1 EXCEPT !.sess[p].lock = t, !.task[t].pc = "drain"]
              ELSE [m1 EXCEPT !.task[t].pc = "lock_wait"]

\* from the first line to the first suspension.  After the eviction of a dead
\* entry (line 90) the local variable "session" still holds it (kp)
GocStart(m, t, op, k, wd, sid) ==
  LET m1 == [m EXCEPT !.task[t] = [IdleTask EXCEPT !.op = op, !.key = k,
                                                   !.wd = wd, !.sid = sid]]
      d == GocDecide(m, k, wd, sid)
  IN
  CASE d = "reuse" -> GotSession(m1, t, m.sessions[k])
    [] d = "kill" -> KillCall(m1, t, k, "goc")
    [] d = "evict" -> [DelKey(m1, k) EXCEPT !.task[t].pc = "launch",
                                            !.task[t].kp = m.sessions[k]]
    [] d = "launch" -> [m1 EXCEPT !.task[t].pc = "launch"]

\* _start_persistent_process has returned process p: it is wrapped in a
\* session and registered (lines 93-103, 127-129)
Register(m, t, p) ==
  LET tr == m.task[t]
      m1 == [m EXCEPT !.proc[p] = [NoProcRec EXCEPT !.state = "live",
                            !.key = tr.key, !.resume = tr.sid],
             !.sess[p] = [NoSessRec EXCEPT !.session_id = tr.sid,
                            !.working_directory = tr.wd]]
  IN GotSession(PutKey(m1, tr.key, p), t, p)

\* the numbers no process has
FreePids == {p \in Procs : proc[p].state = "none"}

\* room for one more process among n, beside those of the calls under way
CanLaunch(n) ==
  Cardinality({u \in Tasks :
                \/ task[u].pc = "launch"
                \/ task[u].pc = "kill_wait" /\ task[u].kret = "goc"})
    + Cardinality(Procs \ FreePids) < n

\* the calls take their arguments from the sets given: ks keys, ids session
\* ids; n is the number of processes that can exist at the same time
GetOrCreateSession(t, ks, ids, n) ==
  /\ task[t].pc = "idle"
  /\ \E k \in ks, wd \in Dirs, sid \in {NoSid} \cup ids :
       /\ GocDecide(Now, k, wd, sid) # "reuse" => CanLaunch(n)
       /\ Commit(GocStart(Now, t, "goc", k, wd, sid))

SendMessage(t, ks, ids, n) ==
  /\ task[t].pc = "idle"
  /\ \E k \in ks, wd \in Dirs, sid \in {NoSid} \cup ids :
       /\ GocDecide(Now, k, wd, sid) # "reuse" => CanLaunch(n)
       /\ Commit(GocStart(Now, t, "send", k, wd, sid))

Launch(t) ==
  /\ task[t].pc = "launch"
  /\ FreePids # {}
  /\ Commit(Register(Now, t, CHOOSE p \in FreePids : \A q \in FreePids : p <= q))

\* a failed launch that puts the entry killed for replacement back in the
\* table before the error is raised
LaunchFailRestores(t) ==
  /\ task[t].pc = "launch"
  /\ Commit(Raise(IF task[t].kp = NoProc THEN Now
                  ELSE PutKey(Now, task[t].key, task[t].kp), t,
                  "LaunchError"))

\* asyncio.create_subprocess_exec raises
LaunchFail(t) ==
  /\ task[t].pc = "launch"
  /\ Commit(Raise(Now, t, "LaunchError"))

\* ---- send_message: the lock, the request, the read loop
\* async with session.lock, after waiting: the lock is free again
AcquireLock(t) ==
  /\ task[t].pc = "lock_wait"
  /\ sess[task[t].s].lock = 0
  /\ Commit([Now EXCEPT !.sess[task[t].s].lock = t, !.task[t].pc = "drain"])

\* await session.process.stdin.drain() (line 185)
Drain(t) ==
  /\ task[t].pc = "drain"
  /\ Commit([Now EXCEPT !.task[t].pc = "read"])

\* the pipe of a process that is gone may already be known to be broken:
\* drain raises
DrainFail(t) ==
  /\ task[t].pc = "drain"
  /\ proc[task[t].s].state # "live"
  /\ Commit(Raise(Now, t, "BrokenPipe"))

\* the session_id of every message that carries one is taken
NoteSessionIdLatest(s, sid) ==
  IF sid # NoSid THEN [s EXCEPT !.session_id = sid] ELSE s

\* lines 222-224: the first session_id seen on a message is kept
NoteSessionId(s, sid) ==
  IF sid # NoSid /\ s.session_id = NoSid
    THEN [s EXCEPT !.session_id = sid]
    ELSE s

\* the context used counted as input_tokens alone
TokensInputOnly(r) == IF r.usage = << >> THEN 0 ELSE r.usage[1]

\* lines 253-263: the numbers taken from a result event
TokensUsed(r) ==
  IF r.usage = << >> THEN 0 ELSE r.usage[1] + r.usage[2] + r.usage[3]

TokensMax(r) == IF r.size = 0 THEN DefaultContextWindow ELSE r.size

\* the counters with the cost assigned as the context numbers are
UpdateCountersAssign(s, r) ==
  [s EXCEPT !.context_tokens_used = TokensUsed(r),
            !.context_tokens_max = TokensMax(r),
            !.total_cost = r.cost_usd,
            !.message_count = @ + 1]

\* lines 266-270: the session's counters after result event r
UpdateCounters(s, r) ==
  [s EXCEPT !.context_tokens_used = TokensUsed(r),
            !.context_tokens_max = TokensMax(r),
            !.total_cost = @ + r.cost_usd,
            !.message_count = @ + 1]

\* lines 272-282: the response built from result event r; s is the session
\* once the event has been noted
Response(s, r) ==
  [content |-> r.result,
   session_id |-> IF r.session_id # NoSid THEN r.session_id ELSE s.session_id,
   cost |-> r.cost_usd,
   context_tokens_used |-> TokensUsed(r),
   context_tokens_max |-> TokensMax(r)]

\* the read loop got result event r: the exchange is complete
Complete(m, t, r) ==
  LET p == m.task[t].s
      s == NoteSessionId(m.sess[p], r.session_id)
  IN [Return([m EXCEPT !.sess[p] = UpdateCounters(s, r)], t)
        EXCEPT !.task[t].out.resp = Response(s, r)]

\* ---- the lines of stdout: a blank line (nothing left once stripped), a
\* line that is not JSON, a message that is not a result, a result event,
\* and a line of JSON that is not an object (a number, a string, a list)
NoEvent == [result |-> "", session_id |-> NoSid, cost_usd |-> 0, size |-> 0,
            usage |-> << >>]

BlankLine == [kind |-> "blank", session_id |-> NoSid, event |-> NoEvent]
TextLine == [kind |-> "text", session_id |-> NoSid, event |-> NoEvent]
MessageLine(sid) == [kind |-> "message", session_id |-> sid, event |-> NoEvent]
ResultLine(r) == [kind |-> "result", session_id |-> r.session_id, event |-> r]
ScalarLine == [kind |-> "scalar", session_id |-> NoSid, event |-> NoEvent]

\* the lines that are not result events, with session ids among ids
OtherLines(ids) ==
  {BlankLine, TextLine} \cup {MessageLine(sid) : sid \in {NoSid} \cup ids}

\* line 215: not line_str
IsBlank(line) == line.kind = "blank"

\* line 219: json.loads does not raise
IsJSON(line) == line.kind \in {"message", "result", "scalar"}

\* json.loads returns a dict: msg.get exists (lines 223, 236)
IsObject(line) == line.kind \in {"message", "result"}

\* the read loop goes on to the next readline (continue)
NextLine(m, t) == [m EXCEPT !.task[t].waited = 0]

\* the body of the loop where a line that is not JSON ends the exchange
HandleLineStrict(m, t, line) ==
  LET p == m.task[t].s IN
  IF IsBlank(line) THEN NextLine(m, t)
  ELSE IF ~IsJSON(line) THEN Raise(m, t, "JSONDecodeError")
  ELSE IF line.kind = "result" THEN Complete(m, t, line.event)
  ELSE NextLine([m EXCEPT !.sess[p] = NoteSessionId(@, line.session_id)], t)

\* the body of the loop for a line that is not empty (lines 214-242).  On a
\* value that is not a dict, msg.get (line 223) raises AttributeError, which
\* neither except clause catches
HandleLine(m, t, line) ==
  LET p == m.task[t].s IN
  IF IsBlank(line) THEN NextLine(m, t)
  ELSE IF ~IsJSON(line) THEN NextLine(m, t)
  ELSE IF ~IsObject(line) THEN Raise(m, t, "AttributeError")
  ELSE IF line.kind = "result" THEN Complete(m, t, line.event)
  ELSE NextLine([m EXCEPT !.sess[p] = NoteSessionId(@, line.session_id)], t)

\* readline() returns a line that is not a result event
ReadLine(t, ids) ==
  /\ task[t].pc = "read"
  /\ \E line \in OtherLines(ids) : Commit(HandleLine(Now, t, line))

\* the subprocess emits one of the result events rs, at most max of them
ReadResult(t, rs, max) ==
  /\ task[t].pc = "read"
  /\ sess[task[t].s].message_count < max
  /\ \E r \in rs : Commit(HandleLine(Now, t, ResultLine(r)))

\* ---- stdout as the pipe it is: the subprocess writes lines while a request
\* is with it, at most MaxLines of them wait to be read, and readline() takes
\* the first
MaxLines == 3

Emit(p, ids, rs, max) ==
  /\ proc[p].state = "live"
  /\ \E t \in Tasks : task[t].s = p /\ task[t].pc \in {"drain", "read"}
  /\ Len(proc[p].stdout) < MaxLines
  /\ \E line \in OtherLines(ids) \cup {ResultLine(r) : r \in rs} :
       /\ line.kind = "result" =>
            sess[p].message_count
              + Cardinality({i \in 1..Len(proc[p].stdout) :
                              proc[p].stdout[i].kind = "result"}) < max
       /\ Commit([Now EXCEPT !.proc[p].stdout = Append(@, line)])

ReadQueued(t) ==
  /\ task[t].pc = "read"
  /\ proc[task[t].s].stdout # << >>
  /\ Commit(HandleLine([Now EXCEPT !.proc[task[t].s].stdout = Tail(@)], t,
                       Head(proc[task[t].s].stdout)))


\* ---- a subprocess that answers every request it gets with one reply: the
\* lines of the reply, the last of which is its result event, are in the pipe
\* once the request is flushed
Replies(rs) ==
  {<<ResultLine(r)>> : r \in rs}
    \cup {<<l, ResultLine(r)>> :
            l \in {TextLine, MessageLine(NoSid), ScalarLine}, r \in rs}

\* await session.process.stdin.drain() (line 185), and the reply of the
\* subprocess to the request
Serve(t, rs, max) ==
  /\ task[t].pc = "drain"
  /\ proc[task[t].s].state = "live"
  /\ \E reply \in Replies(rs) :
       /\ Len(proc[task[t].s].stdout) + Len(reply) <= MaxLines
       /\ sess[task[t].s].message_count
            + Cardinality({i \in 1..Len(proc[task[t].s].stdout) :
                            proc[task[t].s].stdout[i].kind = "result"}) < max
       /\ Commit([Now EXCEPT !.task[t].pc = "read",
                             !.proc[task[t].s].stdout = @ \o reply])

\* the end of the stream counted as a message before the error is raised
EndOfStreamCounted(m, t) ==
  Raise([m EXCEPT !.sess[m.task[t].s].message_count = @ + 1], t, "NoResult")

\* readline() returns b"": the loop ends without a result (lines 210-212,
\* 250-251)
EndOfStream(m, t) == Raise(m, t, "NoResult")

ReadEOF(t) ==
  /\ task[t].pc = "read"
  /\ proc[task[t].s].state # "live"
  /\ Commit(EndOfStream(Now, t))

\* readline() returns b"" once the pipe is empty and the process is gone
ReadQueuedEOF(t) ==
  /\ task[t].pc = "read"
  /\ proc[task[t].s].stdout = << >>
  /\ ReadEOF(t)

\* a timeout handler that kills the oldest entry of the table instead of the
\* entry of the session's key
TimedOutOldest(m, t) ==
  KillCall(m, t, IF m.order = << >> THEN m.task[t].key ELSE Head(m.order),
           "timeout")

\* wait_for times out (lines 244-248): kill_session on the session's key,
\* then the timeout error is raised again
TimedOut(m, t) == KillCall(m, t, m.task[t].key, "timeout")

ReadTimeout(t) ==
  /\ task[t].pc = "read"
  /\ Commit(TimedOut(Now, t))

\* ---- time, where it is counted: task[t].waited is the time the readline
\* under way has waited (wait_for is called anew for every line, lines
\* 205-208); task[t].elapsed is the time since the request was written, which
\* the code does not keep
Tick(t) ==
  /\ task[t].pc = "read"
  /\ task[t].waited < claude_timeout_seconds
  /\ task[t].elapsed < MaxElapsed
  /\ Commit([Now EXCEPT !.task[t].waited = @ + 1,
                        !.task[t].elapsed = @ + 1])

\* wait_for times out when its readline has waited for the whole timeout
ReadTimeoutAtDeadline(t) ==
  /\ task[t].waited = claude_timeout_seconds
  /\ ReadTimeout(t)

\* ---- kill_session, after process.wait(): del self.sessions[key].  The key
\* may no longer be in the dict: del raises KeyError, which ends the call,
\* whatever it was
KillDone(m, t) ==
  LET k == m.task[t].kkey IN
  IF m.sessions[k] = NoProc
    THEN Raise(m, t, "KeyError")
    ELSE AfterKill(DelKey(m, k), t)

KillResume(t) ==
  /\ task[t].pc = "kill_wait"
  /\ proc[task[t].kp].state = "exited"
  /\ Commit(KillDone(Now, t))

KillSession(t, ks) ==
  /\ task[t].pc = "idle"
  /\ \E k \in ks :
       Commit(KillCall([Now EXCEPT !.task[t] =
                          [IdleTask EXCEPT !.op = "kill", !.key = k]],
                       t, k, "kill"))

\* ---- kill_all_sessions (lines 337-341)
\* task[t].seen records the processes that were registered when the keys were
\* listed (line 340) and have not been forgotten since; the code does not
\* keep it, it only serves to state what kill_all_sessions has done
\* with the cleanup lock: the snapshot of the keys and the loop
KillAll(m, t) ==
  AfterKill([m EXCEPT !.cleanupLock = t,
                      !.task[t] = [IdleTask EXCEPT !.op = "killall",
                                     !.kret = "killall", !.snap = m.order,
                                     !.seen = {m.sessions[k] : k \in
                                         {j \in Keys : m.sessions[j] # NoProc}}]],
            t)

KillAllSessions(t) ==
  /\ task[t].pc = "idle"
  /\ cleanupLock = 0
  /\ Commit(KillAll(Now, t))

\* the cleanup lock is taken: wait for it
KillAllWait(t) ==
  /\ task[t].pc = "idle"
  /\ cleanupLock # 0
  /\ Commit([Now EXCEPT !.task[t] = [IdleTask EXCEPT !.op = "killall",
                                        !.pc = "cleanup_wait"]])

AcquireCleanup(t) ==
  /\ task[t].pc = "cleanup_wait"
  /\ cleanupLock = 0
  /\ Commit(KillAll(Now, t))

\* ---- interrupt_session (lines 304-322): no suspension point.  The signal
\* sent is part of the outcome: out.session is the process signalled.
\* interrupt_session without the test of returncode (lines 311-313)
InterruptAny(m, t, k) ==
  LET p == m.sessions[k]
      m1 == [m EXCEPT !.task[t] = [IdleTask EXCEPT !.op = "interrupt",
                                                   !.key = k]]
  IN
  IF p = NoProc THEN Return(m1, t)
  ELSE [Return(m1, t) EXCEPT !.task[t].out.flag = TRUE,
                             !.task[t].out.session = p]

\* interrupt_session taking the lock of the session first: with an exchange
\* under way it waits for the lock
InterruptLocked(m, t, k) ==
  LET p == m.sessions[k]
      m1 == [m EXCEPT !.task[t] = [IdleTask EXCEPT !.op = "interrupt",
                                                   !.key = k]]
  IN
  IF p = NoProc THEN Return(m1, t)
  ELSE IF ~ReturncodeNone(m, p) THEN Return(m1, t)
  ELSE IF m.sess[p].lock # 0
    THEN [m1 EXCEPT !.task[t].pc = "lock_wait", !.task[t].s = p]
  ELSE [Return(m1, t) EXCEPT !.task[t].out.flag = TRUE,
                             !.task[t].out.session = p]

Interrupt(m, t, k) ==
  LET p == m.sessions[k]
      m1 == [m EXCEPT !.task[t] = [IdleTask EXCEPT !.op = "interrupt",
                                                   !.key = k]]
  IN
  IF p = NoProc THEN Return(m1, t)
  ELSE IF ~ReturncodeNone(m, p) THEN Return(m1, t)
  ELSE [Return(m1, t) EXCEPT !.task[t].out.flag = TRUE,
                             !.task[t].out.session = p]

InterruptSession(t, ks) ==
  /\ task[t].pc = "idle"
  /\ \E k \in ks :
       Commit(Interrupt(Now, t, k))

\* ---- status queries: read-only, no suspension point
get_session_count == Cardinality({k \in Keys : sessions[k] # NoProc})

\* get_session_status without the test of returncode (lines 354-356)
get_session_status_any(k) ==
  IF sessions[k] = NoProc
    THEN [found |-> FALSE, s |-> NoSessRec]
    ELSE [found |-> TRUE, s |-> [sess[sessions[k]] EXCEPT !.lock = 0]]

get_session_status(k) ==
  IF sessions[k] = NoProc \/ ~ReturncodeNone(Now, sessions[k])
    THEN [found |-> FALSE, s |-> NoSessRec]
    ELSE [found |-> TRUE, s |-> [sess[sessions[k]] EXCEPT !.lock = 0]]

\* the keys of the entries get_all_sessions_info reports
get_all_sessions_info ==
  {k \in Keys : sessions[k] # NoProc /\ ReturncodeNone(Now, sessions[k])}

\* ---- the environment: the subprocesses and the callers
\* a subprocess ends on its own
Crash(p) ==
  /\ proc[p].state = "live"
  /\ Commit([Now EXCEPT !.proc[p].state = "dying"])

\* the event loop sees that a subprocess has exited: returncode is set
ProcExit(p) ==
  /\ proc[p].state = "dying"
  /\ Commit([Now EXCEPT !.proc[p].state = "exited"])

\* the caller has taken the outcome of its call
Finish(t) ==
  /\ task[t].pc = "done"
  /\ Commit([Now EXCEPT !.task[t] = IdleTask])

\* ---- the table user_active_sessions (session_storage.py, lines 243-339).
\* A row is (user_id, thread_id, session_id, project_path); updated_at is
\* never read.  A statement acts on the table in one step, in the order in
\* which the statements are executed; conn.commit() is a step of its own.
Row(u, th, s, p) ==
  [user_id |-> u, thread_id |-> th, session_id |-> s, project_path |-> p]

\* COALESCE(thread_id, 0) of the conflict target
COALESCE(th) == IF th = Null THEN 0 ELSE th

\* the rows the new row conflicts with
Conflict(rows, u, th) ==
  {r \in rows : r.user_id = u /\ COALESCE(r.thread_id) = COALESCE(th)}

\* an INSERT that ignores the conflict
UpsertInsert(rows, u, th, s, p) == rows \cup {Row(u, th, s, p)}

\* INSERT ... ON CONFLICT(user_id, COALESCE(thread_id, 0)) DO UPDATE SET
\* session_id, project_path: the row in conflict keeps its thread_id
Upsert(rows, u, th, s, p) ==
  IF Conflict(rows, u, th) = {}
  THEN rows \cup {Row(u, th, s, p)}
  ELSE (rows \ Conflict(rows, u, th))
         \cup {[r EXCEPT !.session_id = s, !.project_path = p] :
                 r \in Conflict(rows, u, th)}

\* WHERE user_id = ? AND thread_id IS NULL, or AND thread_id = ?, which no
\* row of a NULL thread_id satisfies
Where(r, u, th) ==
  /\ r.user_id = u
  /\ IF th = Null THEN r.thread_id = Null
                  ELSE r.thread_id # Null /\ r.thread_id = th

Select(rows, u, th) == {r \in rows : Where(r, u, th)}

\* cursor.fetchone() and the value returned: (row[0], row[1]) or None
Fetchone(rows, u, th) ==
  IF Select(rows, u, th) = {} THEN NoPointer
  ELSE LET r == CHOOSE x \in Select(rows, u, th) : TRUE
       IN  <<r.session_id, r.project_path>>

\* a DELETE without the condition on thread_id
DeleteUser(rows, u, th) == {r \in rows : r.user_id # u}

\* DELETE FROM user_active_sessions WHERE ...
Delete(rows, u, th) == rows \ Select(rows, u, th)

\* the values a caller stores: a session id and a directory
Pointers == {<<"s1", "d1">>, <<"s2", "d2">>}

ManagerVars == <<sessions, order, proc, sess, cleanupLock, task>>

StartCall(c, op, u, th, s, p, pc, out) ==
  call' = [call EXCEPT ![c] = [pc |-> pc, op |-> op, user_id |-> u,
                               thread_id |-> th, session_id |-> s,
                               project_path |-> p, out |-> out,
                               current_dir |-> "d1"]]

\* set_user_active_session (lines 243-265): the upsert, up to conn.commit()
set_user_active_session(c) ==
  /\ call[c].pc = "idle"
  /\ \E u \in Users, th \in ThreadIds, v \in Pointers :
       /\ store' = Upsert(store, u, th, v[1], v[2])
       /\ StartCall(c, "set", u, th, v[1], v[2], "commit", NoPointer)
  /\ UNCHANGED <<ManagerVars, user_data>>

\* get_user_active_session (lines 274-309): the SELECT and the return
get_user_active_session(c) ==
  /\ call[c].pc = "idle"
  /\ \E u \in Users, th \in ThreadIds :
       StartCall(c, "get", u, th, NoSid, "d1", "done",
                 Fetchone(store, u, th))
  /\ UNCHANGED <<ManagerVars, user_data, store>>

\* clear_user_active_session (lines 311-333): the DELETE, up to conn.commit()
clear_user_active_session(c) ==
  /\ call[c].pc = "idle"
  /\ \E u \in Users, th \in ThreadIds :
       /\ store' = Delete(store, u, th)
       /\ StartCall(c, "clear", u, th, NoSid, "d1", "commit", NoPointer)
  /\ UNCHANGED <<ManagerVars, user_data>>

\* await conn.commit() (lines 265, 333), and the return
ConnCommit(c) ==
  /\ call[c].pc = "commit"
  /\ call' = [call EXCEPT ![c].pc = "done"]
  /\ UNCHANGED <<ManagerVars, user_data, store>>

\* the caller takes the result
CallOver(c) ==
  /\ call[c].pc = "done"
  /\ call' = [call EXCEPT ![c] = IdleCall]
  /\ UNCHANGED <<ManagerVars, user_data, store>>

\* ---- the command handlers (command.py).  claude_integration forwards the
\* three pointer operations to the storage.
\* _get_thread_id (lines 16-20): a falsy message_thread_id is no thread
_get_thread_id(message_thread_id) ==
  IF message_thread_id = Null \/ message_thread_id = 0 THEN Null
  ELSE message_thread_id

\* new_session (lines 99-121): forgets the session id of the context and
\* clears the pointer
new_session(c) ==
  /\ call[c].pc = "idle"
  /\ \E u \in Users, m \in ThreadIds :
       /\ user_data' = [user_data EXCEPT ![u] = NoSid]
       /\ store' = Delete(store, u, _get_thread_id(m))
       /\ StartCall(c, "new", u, _get_thread_id(m), NoSid, "d1", "commit",
                    NoPointer)
  /\ UNCHANGED ManagerVars

\* end_session (lines 474-531): returns early without a session id in the
\* context, and forgets the session id of the context otherwise
end_session(c) ==
  /\ call[c].pc = "idle"
  /\ \E u \in Users, m \in ThreadIds :
       /\ user_data' = IF user_data[u] = NoSid THEN user_data
                       ELSE [user_data EXCEPT ![u] = NoSid]
       /\ StartCall(c, "end", u, _get_thread_id(m), user_data[u], "d1",
                    "done", NoPointer)
  /\ UNCHANGED <<ManagerVars, store>>

\* ---- directories.  A directory is known by a name; PathOf gives its path
\* as the sequence of its components, each one a sequence of characters.
PathOf(name) ==
  CASE name = "d1" -> << <<"r">>, <<"a">> >>                \* /r/a
    [] name = "d2" -> << <<"r">>, <<"b">> >>                \* /r/b
    [] name = "gone" -> << <<"r">>, <<"c">> >>              \* /r/c
    [] name = "sib" -> << <<"r", "x">> >>                   \* /rx
    [] name = "out" -> << <<"o">> >>                        \* /o
    [] name = "up" -> << <<"r">>, <<".", ".">>, <<"o">> >>  \* /r/../o

\* settings.approved_directory: /r
approved_directory == << <<"r">> >>

\* the directories a pointer of the table can name, and those that exist
StoredDirs == Dirs \cup {"gone", "sib", "out", "up"}
ExistingDirs == StoredDirs \ {"gone"}

\* Path.exists()
exists(name) == name \in ExistingDirs

\* Path.resolve(): the path without its ".." components
RECURSIVE ResolveFrom(_, _)
ResolveFrom(acc, rest) ==
  IF rest = << >> THEN acc
  ELSE IF Head(rest) = <<".", ".">>
    THEN ResolveFrom(IF acc = << >> THEN acc
                     ELSE SubSeq(acc, 1, Len(acc) - 1), Tail(rest))
    ELSE ResolveFrom(Append(acc, Head(rest)), Tail(rest))

resolve(path) == ResolveFrom(<< >>, path)

\* str(path): the characters of the path
RECURSIVE str(_)
str(path) ==
  IF path = << >> THEN << >>
  ELSE <<"/">> \o Head(path) \o str(Tail(path))

\* str.startswith
startswith(s, prefix) ==
  Len(s) >= Len(prefix) /\ SubSeq(s, 1, Len(prefix)) = prefix

\* lines 186-187: the stored directory exists and the characters of its
\* resolved path start with those of the approved directory
ValidStoredDir(name) ==
  /\ exists(name)
  /\ startswith(str(resolve(PathOf(name))), str(resolve(approved_directory)))

\* continue_session (lines 153-199): without a session id in the context,
\* the pointer is read and its session id put in the context; its directory
\* is taken when it is valid.  Then the command runs (lines 224-244).
continue_session(c) ==
  /\ call[c].pc = "idle"
  /\ \E u \in Users, m \in ThreadIds, d \in Dirs :
       LET th == _get_thread_id(m)
           active_session == Fetchone(store, u, th)
           restored == user_data[u] = NoSid /\ active_session # NoPointer
       IN
       /\ user_data' = IF restored
                       THEN [user_data EXCEPT ![u] = active_session[1]]
                       ELSE user_data
       /\ call' = [call EXCEPT ![c] =
            [pc |-> "run", op |-> "continue", user_id |-> u,
             thread_id |-> th,
             session_id |-> IF restored THEN active_session[1]
                            ELSE user_data[u],
             project_path |-> IF restored /\ ValidStoredDir(active_session[2])
                              THEN active_session[2] ELSE d,
             out |-> IF restored THEN active_session ELSE NoPointer,
             current_dir |-> d]]
  /\ UNCHANGED <<ManagerVars, store>>

\* a response stored with the directory of the context as it was when the
\* command arrived, not the directory the command ran in
ContinueResponseContextDir(c) ==
  /\ call[c].pc = "run"
  /\ \E sid \in Sids :
       /\ user_data' = [user_data EXCEPT ![call[c].user_id] = sid]
       /\ store' = Upsert(store, call[c].user_id, call[c].thread_id, sid,
                          call[c].current_dir)
       /\ call' = [call EXCEPT ![c].pc = "commit", ![c].session_id = sid]
  /\ UNCHANGED ManagerVars

\* continue_session (lines 246-253): a response puts its session id in the
\* context and in the pointer
ContinueResponse(c) ==
  /\ call[c].pc = "run"
  /\ \E sid \in Sids :
       /\ user_data' = [user_data EXCEPT ![call[c].user_id] = sid]
       /\ store' = Upsert(store, call[c].user_id, call[c].thread_id, sid,
                          call[c].project_path)
       /\ call' = [call EXCEPT ![c].pc = "commit", ![c].session_id = sid]
  /\ UNCHANGED ManagerVars

\* continue_session (lines 280-307): no response, or an exception
ContinueNoResponse(c) ==
  /\ call[c].pc = "run"
  /\ call' = [call EXCEPT ![c].pc = "done"]
  /\ UNCHANGED <<ManagerVars, store, user_data>>

\* the bot is restarted between two updates: the context and the manager are
\* lost, the table is kept (line 169)
Restart ==
  /\ \A c \in Tasks : call[c].pc = "idle"
  /\ \A t \in Tasks : task[t].pc = "idle"
  /\ user_data' = [u \in Users |-> NoSid]
  /\ sessions' = [k \in Keys |-> NoProc]
  /\ order' = << >>
  /\ proc' = [p \in Procs |-> NoProcRec]
  /\ sess' = [p \in Procs |-> NoSessRec]
  /\ cleanupLock' = 0
  /\ UNCHANGED <<task, store, call>>

\* ---- concurrent callers of one key: what the interleavings of the
\* coroutines can do
ConcKeys == {"k1"}
ConcIds == {"s1"}
ConcResults == {r \in Results : r.session_id \in ConcIds}

Next ==
  \/ \E t \in Tasks :
       \/ SendMessage(t, ConcKeys, ConcIds, MaxProcs)
       \/ Launch(t)
       \/ LaunchFail(t)
       \/ AcquireLock(t)
       \/ Drain(t)
       \/ DrainFail(t)
       \/ ReadLine(t, ConcIds)
       \/ ReadResult(t, ConcResults, MaxConcMsgs)
       \/ ReadEOF(t)
       \/ ReadTimeout(t)
       \/ KillResume(t)
       \/ KillSession(t, ConcKeys)
       \/ KillAllSessions(t)
       \/ KillAllWait(t)
       \/ AcquireCleanup(t)
       \/ InterruptSession(t, ConcKeys)
       \/ Finish(t)
  \/ \E p \in Procs : Crash(p) \/ ProcExit(p)

Spec == Init /\ [][Next]_vars

\* ---- one caller at a time: what a sequence of calls does, for every key,
\* session id and result event
SeqKeys == {"k1"}

NextSeq ==
  \/ GetOrCreateSession(1, SeqKeys, Sids, MaxProcs)
  \/ SendMessage(1, SeqKeys, Sids, MaxProcs)
  \/ Launch(1)
  \/ LaunchFail(1)
  \/ Drain(1)
  \/ DrainFail(1)
  \/ ReadLine(1, Sids)
  \/ ReadResult(1, Results, MaxMsgs)
  \/ ReadEOF(1)
  \/ ReadTimeout(1)
  \/ KillResume(1)
  \/ KillSession(1, SeqKeys)
  \/ KillAllSessions(1)
  \/ InterruptSession(1, SeqKeys)
  \/ Finish(1)
  \/ \E p \in Procs : Crash(p) \/ ProcExit(p)

SpecSeq == Init /\ [][NextSeq]_vars

\* ---- one caller and the clock: the timeout of the read loop
NextTime ==
  \/ SendMessage(1, SeqKeys, Sids, 1)
  \/ Launch(1)
  \/ LaunchFail(1)
  \/ Drain(1)
  \/ DrainFail(1)
  \/ ReadLine(1, Sids)
  \/ ReadResult(1, Results, MaxMsgs)
  \/ ReadEOF(1)
  \/ Tick(1)
  \/ ReadTimeoutAtDeadline(1)
  \/ KillResume(1)
  \/ Finish(1)
  \/ \E p \in Procs : Crash(p) \/ ProcExit(p)

SpecTime == Init /\ [][NextTime]_vars

\* ---- one caller and the pipe: what the read loop does with the lines in
\* the order in which the subprocess wrote them
NextPipe ==
  \/ SendMessage(1, SeqKeys, {"s1"}, 1)
  \/ Launch(1)
  \/ LaunchFail(1)
  \/ Drain(1)
  \/ DrainFail(1)
  \/ ReadQueued(1)
  \/ ReadQueuedEOF(1)
  \/ Finish(1)
  \/ \E p \in Procs : \/ Emit(p, {"s2"}, Results, MaxMsgs)
                       \/ Crash(p)
                       \/ ProcExit(p)

SpecPipe == Init /\ [][NextPipe]_vars

\* ---- concurrent callers of two keys: exchanges, timeouts, kills and
\* replacements on one key while the other key is in use, with processes
\* that end only when killed
NextKeys ==
  \/ \E t \in Tasks :
       \/ SendMessage(t, Keys, {}, MaxProcs)
       \/ Launch(t)
       \/ LaunchFail(t)
       \/ AcquireLock(t)
       \/ Drain(t)
       \/ DrainFail(t)
       \/ ReadResult(t, ConcResults, MaxConcMsgs)
       \/ ReadEOF(t)
       \/ ReadTimeout(t)
       \/ KillResume(t)
       \/ KillSession(t, Keys)
       \/ Finish(t)
  \/ \E p \in Procs : ProcExit(p)

SpecKeys == Init /\ [][NextKeys]_vars

\* ---- one caller and a subprocess that answers request by request, or
\* hangs or ends without an answer
NextPair ==
  \/ SendMessage(1, SeqKeys, {}, 1)
  \/ Launch(1)
  \/ LaunchFail(1)
  \/ Serve(1, Results, MaxMsgs)
  \/ Drain(1)
  \/ DrainFail(1)
  \/ ReadQueued(1)
  \/ ReadQueuedEOF(1)
  \/ ReadTimeout(1)
  \/ KillResume(1)
  \/ Finish(1)
  \/ \E p \in Procs : Crash(p) \/ ProcExit(p)

SpecPair == Init /\ [][NextPair]_vars

\* ---- overlapping calls on the table of two keys: creation, replacement,
\* kill and kill_all, without exchanges and with processes that end only
\* when killed
NextTable ==
  \/ \E t \in Tasks :
       \/ GetOrCreateSession(t, Keys, {}, MaxTableProcs)
       \/ Launch(t)
       \/ LaunchFail(t)
       \/ KillResume(t)
       \/ KillSession(t, Keys)
       \/ KillAllSessions(t)
       \/ KillAllWait(t)
       \/ AcquireCleanup(t)
       \/ Finish(t)
  \/ \E p \in Procs : ProcExit(p)

SpecTable == Init /\ [][NextTable]_vars

\* ---- the storage calls of two callers, on every key
NextStore ==
  \E c \in Tasks :
    \/ set_user_active_session(c) \/ get_user_active_session(c)
    \/ clear_user_active_session(c) \/ ConnCommit(c) \/ CallOver(c)

SpecStore == Init /\ [][NextStore]_vars

\* ---- the commands of the users, one update at a time, and restarts
NextCmd ==
  \/ new_session(1) \/ end_session(1) \/ continue_session(1)
  \/ ContinueResponse(1) \/ ContinueNoResponse(1)
  \/ ConnCommit(1) \/ CallOver(1)
  \/ Restart

SpecCmd == Init /\ [][NextCmd]_vars

\* ---- the commands of the users when the table holds, at the start, a
\* pointer of any directory: one written before the directory was removed
\* or the approved directory changed, or one edited in the database file
InitResume ==
  /\ sessions = [k \in Keys |-> NoProc]
  /\ order = << >>
  /\ proc = [p \in Procs |-> NoProcRec]
  /\ sess = [p \in Procs |-> NoSessRec]
  /\ cleanupLock = 0
  /\ task = [t \in Tasks |-> IdleTask]
  /\ store \in {{Row(7, Null, "s1", d)} : d \in StoredDirs}
  /\ user_data = [u \in Users |-> NoSid]
  /\ call = [c \in Tasks |-> IdleCall]

SpecResume == InitResume /\ [][NextCmd]_vars

TypeOK ==
  /\ sessions \in [Keys -> 0..MaxTableProcs]
  /\ cleanupLock \in 0..NTasks
  /\ \A p \in Procs : proc[p].state \in {"none", "live", "dying", "exited"}
  /\ \A k \in Keys : sessions[k] # NoProc => proc[sessions[k]].state # "none"
  /\ \A k \in Keys :
       sessions[k] # NoProc <=> \E i \in 1..Len(order) : order[i] = k
  /\ \A p \in Procs : sess[p].lock # 0 =>
       task[sess[p].lock].s = p /\ task[sess[p].lock].pc \in {"drain", "read", "kill_wait"}

\* ---- what the claims speak of
\* an exchange of task t is in flight: its request line is written and its
\* terminal result is not yet read
InFlight(t) == task[t].pc \in {"drain", "read"}

\* the subprocesses launched for key k that have not exited
Unexited(k) ==
  {p \in Procs : proc[p].key = k /\ proc[p].state \in {"live", "dying"}}

\* the kill() calls process p has got.  Each one is followed by wait(),
\* which returns only once p has exited, and a process that has exited is
\* not signalled: until p exits, its kills are the kill_session calls
\* waiting for it.
Kills(p) ==
  Cardinality({u \in Tasks : task[u].pc = "kill_wait" /\ task[u].kp = p})

\* task t makes a call in this step
Calls(t, op) == task[t].pc = "idle" /\ task'[t].op = op

\* the counters of a session
Counters(s) ==
  <<s.context_tokens_used, s.context_tokens_max, s.total_cost,
    s.message_count>>

\* C1: for every key, at most one exchange is in flight at any instant,
\* under every interleaving of concurrent send_message callers.
C1_OneExchangePerKey ==
  \A k \in Keys :
    Cardinality({t \in Tasks : InFlight(t) /\ task[t].key = k}) <= 1

\* C2: at most one subprocess launched for a key and not yet exited exists,
\* whether or not it is still in the sessions table.
C2_OneProcessPerKey ==
  \A k \in Keys : Cardinality(Unexited(k)) <= 1

\* C3: a send_message that targets a key while another caller's exchange on
\* that key is in flight waits for that session's lock and launches nothing,
\* whatever working directory or session id it passes.
C3_SecondCallerWaits ==
  [][\A t \in Tasks, u \in Tasks :
       (Calls(t, "send") /\ u # t /\ InFlight(u)
          /\ task[u].key = task'[t].key)
       => (task'[t].pc = "lock_wait" /\ task'[t].s = task[u].s)]_vars

\* C4: creating the session of a key that has no entry launches exactly one
\* subprocess, also when calls for that key overlap: a process that is
\* registered never finds the key taken by the process of an overlapping
\* call.
C4_OneLaunchPerCreation ==
  [][\A t \in Tasks :
       (task[t].pc = "launch" /\ sessions'[task[t].key] # sessions[task[t].key])
       => sessions[task[t].key] = NoProc]_vars

\* the get_or_create_session of task t has killed the entry of its key,
\* process task[t].kp, and has not yet registered its own
Replacing(t) ==
  /\ task[t].op \in {"goc", "send"}
  /\ task[t].pc \in {"kill_wait", "launch"}
  /\ task[t].kret = "goc"
  /\ task[t].kp # NoProc

\* C5: in a sequence of get_or_create_session calls, a call whose working
\* directory differs from the live entry's kills the registered process
\* once, and that process has exited (kill, then wait) and its entry is gone
\* before the new process is launched and registered.
C5_KilledAndExitedBeforeLaunch ==
  \A t \in Tasks :
    (Replacing(t) /\ sess[task[t].kp].working_directory # task[t].wd) =>
      /\ proc[task[t].kp].state \in {"dying", "exited"}
      /\ task[t].pc = "kill_wait" =>
           /\ Kills(task[t].kp) = 1
           /\ sessions[task[t].key] = task[t].kp
      /\ task[t].pc = "launch" =>
           /\ proc[task[t].kp].state = "exited"
           /\ sessions[task[t].key] = NoProc
           /\ Unexited(task[t].key) = {}

C5_Witness ==
  \E t \in Tasks :
    /\ Replacing(t)
    /\ task[t].pc = "launch"
    /\ sess[task[t].kp].working_directory # task[t].wd

\* the get_or_create_session of task t is replacing the entry of its key
\* because the session id asked for is not the entry's (lines 76-85)
ReplacingForId(t) ==
  /\ Replacing(t)
  /\ task[t].sid # NoSid
  /\ sess[task[t].kp].working_directory = task[t].wd
  /\ sess[task[t].kp].session_id # task[t].sid

\* C6: get_or_create_session (called directly or by send_message) on a key
\* with a live entry, the same working directory and a given session id that
\* differs from the entry's kills the old process, waits for its exit, and
\* registers a new process launched with that id as its resume instruction.
C6_SessionIdChangeReplaces ==
  [][\A t \in Tasks :
       LET k == task'[t].key
           p == sessions[k]
       IN
       /\ (/\ Calls(t, "goc") \/ Calls(t, "send")
           /\ p # NoProc
           /\ ReturncodeNone(Now, p)
           /\ sess[p].working_directory = task'[t].wd
           /\ task'[t].sid # NoSid
           /\ sess[p].session_id # task'[t].sid)
          => /\ task'[t].pc = "kill_wait"
             /\ task'[t].kp = p
             /\ proc'[p].state = "dying"
             /\ sessions' = sessions
       /\ (ReplacingForId(t) /\ task[t].pc = "kill_wait"
             /\ task'[t].pc # "kill_wait")
          => /\ proc[task[t].kp].state = "exited"
             /\ task'[t].pc = "launch"
             /\ sessions'[k] = NoProc
       /\ (ReplacingForId(t) /\ task[t].pc = "launch"
             /\ task'[t].pc # "launch"
             /\ task'[t].out.err # "LaunchError")
          => LET q == sessions'[k] IN
             /\ q # NoProc
             /\ proc[q].state = "none"
             /\ proc'[q] = [NoProcRec EXCEPT !.state = "live", !.key = k,
                                             !.resume = task[t].sid]
             /\ sess'[q].session_id = task[t].sid
             /\ sess'[q].working_directory = task[t].wd]_vars

\* C7: get_or_create_session on a key with a live entry returns that entry,
\* launching and killing nothing and leaving the table unchanged, exactly
\* when the working directory asked for is the entry's and the session id
\* asked for is absent or the entry's.
C7_ReuseExactlyWhenUnchanged ==
  [][\A t \in Tasks :
       LET k == task'[t].key
           p == sessions[k]
       IN
       (Calls(t, "goc") /\ p # NoProc /\ ReturncodeNone(Now, p)) =>
         ((/\ task'[t].pc = "done"
           /\ task'[t].out.kind = "ret"
           /\ task'[t].out.session = p
           /\ UNCHANGED <<sessions, order, proc, sess>>)
          <=>
          (/\ sess[p].working_directory = task'[t].wd
           /\ (task'[t].sid = NoSid
                 \/ sess[p].session_id = task'[t].sid)))]_vars

C7_Witness ==
  \E t \in Tasks :
    /\ task[t].op = "goc"
    /\ task[t].pc = "done"
    /\ task[t].out.kind = "ret"
    /\ task[t].out.session # NoProc
    /\ task[t].out.session = sessions[task[t].key]
    /\ sess[task[t].out.session].message_count > 0
    /\ task[t].sid # NoSid
    /\ task[t].sid = sess[task[t].out.session].session_id
    /\ proc[task[t].out.session].resume = NoSid

\* C8: when an exchange times out, the process of the session that timed out
\* is killed and has exited, and the key has no entry, when the timeout error
\* reaches the caller: get_all_sessions_info does not list the key and
\* get_session_status finds nothing.
C8_TimeoutKillsAndRemoves ==
  [][\A t \in Tasks :
       (task[t].pc \in {"read", "kill_wait"} /\ task'[t].pc = "done"
          /\ task'[t].out.err = "Timeout")
       => /\ proc'[task[t].s].state \in {"exited", "none"}
          /\ sessions'[task[t].key] = NoProc
          /\ task[t].key \notin get_all_sessions_info'
          /\ ~get_session_status(task[t].key).found']_vars

\* C9: when the output stream ends before a result event is read,
\* send_message fails with the no-result error and the session's counters
\* are what they were, for whoever still holds the session.
C9_EofLeavesCounters ==
  [][\A t \in Tasks :
       (task[t].pc = "read" /\ task'[t].out.err = "NoResult")
       => /\ proc[task[t].s].state # "live"
          /\ task'[t].pc = "done"
          /\ task'[t].out.kind = "err"
          /\ (\/ \E k \in Keys : sessions'[k] = task[t].s
              \/ \E u \in Tasks : task'[u].s = task[t].s)
             => Counters(sess'[task[t].s]) = Counters(sess[task[t].s])]_vars

C9_Witness ==
  \E t \in Tasks :
    /\ task[t].op = "send"
    /\ task[t].pc = "done"
    /\ task[t].out.err = "NoResult"
    /\ sessions[task[t].key] # NoProc
    /\ sess[sessions[task[t].key]].message_count = 1
    /\ sess[sessions[task[t].key]].total_cost = 1

\* C10: interrupt_session on a key with no entry or with a process seen to
\* have exited returns False, sends nothing and changes neither the table
\* nor a process; on a key with a live process it sends one interrupt signal
\* to that process, returns True and leaves the entry registered.
C10_InterruptFrame ==
  [][\A t \in Tasks :
       LET k == task'[t].key
           p == sessions[k]
       IN
       Calls(t, "interrupt") =>
         /\ task'[t].pc = "done"
         /\ task'[t].out.kind = "ret"
         /\ UNCHANGED <<sessions, order, proc, sess, cleanupLock>>
         /\ IF p # NoProc /\ ReturncodeNone(Now, p)
              THEN task'[t].out.flag /\ task'[t].out.session = p
              ELSE ~task'[t].out.flag /\ task'[t].out.session = NoProc]_vars

C10_Witness ==
  \E t \in Tasks :
    /\ task[t].op = "interrupt"
    /\ task[t].pc = "done"
    /\ task[t].out.flag
    /\ task[t].out.session = sessions[task[t].key]
    /\ proc[task[t].out.session].state = "live"

\* C11: kill_session(k) kills the registered process, waits for its exit,
\* then removes the entry of k and returns; on an absent key it does
\* nothing, so that a second call in a row changes nothing; the entries of
\* the other keys are as they were.
C11_KillSession ==
  [][\A t \in Tasks :
       LET k == task'[t].key
           p == sessions[k]
       IN
       /\ Calls(t, "kill") =>
            /\ \A j \in Keys \ {k} : sessions'[j] = sessions[j]
            /\ IF p = NoProc
                 THEN /\ task'[t].pc = "done"
                      /\ task'[t].out.kind = "ret"
                      /\ UNCHANGED <<sessions, order, proc, sess>>
                 ELSE IF proc[p].state = "exited"
                   THEN /\ task'[t].pc = "done"
                        /\ task'[t].out.kind = "ret"
                        /\ sessions'[k] = NoProc
                   ELSE /\ task'[t].pc = "kill_wait"
                        /\ task'[t].kp = p
                        /\ proc'[p].state = "dying"
                        /\ sessions' = sessions
       /\ (task[t].op = "kill" /\ task[t].pc = "kill_wait"
             /\ task'[t].pc # "kill_wait")
          => /\ proc[task[t].kp].state = "exited"
             /\ sessions[k] = task[t].kp
             /\ task'[t].pc = "done"
             /\ task'[t].out.kind = "ret"
             /\ sessions' = [sessions EXCEPT ![k] = NoProc]]_vars

\* C12: when kill_all_sessions returns, every entry that was registered when
\* it listed the keys has been killed and is out of the table; and two
\* kill_all_sessions calls never run their loops at the same time, so that
\* they never kill or remove the same entry twice.
C12_KillAllSessions ==
  /\ \A t \in Tasks :
       (task[t].op = "killall" /\ task[t].pc = "done"
          /\ task[t].out.kind = "ret")
       => \A p \in task[t].seen :
            /\ proc[p].state # "live"
            /\ \A k \in Keys : sessions[k] # p
  /\ \A t \in Tasks, u \in Tasks :
       (/\ t # u
        /\ task[t].op = "killall" /\ task[t].pc = "kill_wait"
        /\ task[u].op = "killall")
       => task[u].pc \in {"cleanup_wait", "done"}

\* C13: get_session_status returns None for, and get_all_sessions_info
\* omits, every entry whose process has been seen to exit and that is still
\* in the table; every entry they report is in the table with a process
\* whose returncode is None, and what is reported is that entry.
C13_StatusExcludesDead ==
  \A k \in Keys :
    /\ (sessions[k] # NoProc /\ proc[sessions[k]].state = "exited")
         => /\ ~get_session_status(k).found
            /\ k \notin get_all_sessions_info
    /\ get_session_status(k).found
         => /\ sessions[k] # NoProc
            /\ proc[sessions[k]].state \in {"live", "dying"}
            /\ get_session_status(k).s.session_id
                 = sess[sessions[k]].session_id
            /\ Counters(get_session_status(k).s)
                 = Counters(sess[sessions[k]])
    /\ k \in get_all_sessions_info
         => /\ sessions[k] # NoProc
            /\ proc[sessions[k]].state \in {"live", "dying"}

C13_Witness ==
  \E k \in Keys :
    /\ sessions[k] # NoProc
    /\ proc[sessions[k]].state = "exited"
    /\ sess[sessions[k]].message_count > 0
    /\ ~get_session_status(k).found
    /\ get_session_count = 1
    /\ get_all_sessions_info = {}

\* session q is what the get_or_create_session of task t hands over in this
\* step: the value returned, or the session send_message goes on with
Obtains(t, q) ==
  IF task'[t].op = "goc"
    THEN /\ task'[t].pc = "done"
         /\ task'[t].out.kind = "ret"
         /\ task'[t].out.session = q
    ELSE /\ task'[t].op = "send"
         /\ task'[t].pc \in {"drain", "lock_wait"}
         /\ task'[t].s = q

\* C14: get_or_create_session never returns an entry whose process had been
\* seen to exit at the reuse check: the dead entry is deleted from the table
\* at once, without an error, and the call launches exactly one new process,
\* registers it under the same key and returns it.
C14_DeadEntryReplaced ==
  [][\A t \in Tasks :
       LET k == task'[t].key
           p == sessions[k]
       IN
       /\ (/\ Calls(t, "goc") \/ Calls(t, "send")
           /\ p # NoProc
           /\ ~ReturncodeNone(Now, p))
          => /\ task'[t].pc = "launch"
             /\ sessions' = [sessions EXCEPT ![k] = NoProc]
             /\ proc' = proc
             /\ ~Obtains(t, p)
       /\ (/\ task[t].pc = "launch"
           /\ task'[t].pc # "launch"
           /\ task'[t].out.err # "LaunchError")
          => \E q \in Procs :
               /\ proc[q].state = "none"
               /\ proc'[q].state = "live"
               /\ proc'[q].key = k
               /\ sessions'[k] = q
               /\ Obtains(t, q)
               /\ \A r \in Procs \ {q} :
                    \/ proc'[r] = proc[r]
                    \/ proc[r].state = "exited" /\ proc'[r] = NoProcRec
       /\ \A q \in Procs :
            (task[t].pc \in {"idle", "launch"} /\ Obtains(t, q))
            => proc'[q].state \in {"live", "dying"}]_vars

C14_Witness ==
  \E t \in Tasks :
    /\ task[t].op \in {"goc", "send"}
    /\ task[t].pc = "launch"
    /\ task[t].kret = "none"
    /\ task[t].kp # NoProc
    /\ proc[task[t].kp].state = "exited"
    /\ sess[task[t].kp].message_count > 0
    /\ sessions[task[t].key] = NoProc

\* C15: for every completed exchange, send_message returns the text and the
\* session id of the result event, and the session's context_tokens_used is
\* the sum of the three token counts of the usage block (0 without a block),
\* context_tokens_max is the window size reported (200000 when none is),
\* total_cost has grown by the cost of the result and message_count by 1.
C15_CompletedExchange ==
  [][\A t \in Tasks :
       LET p == task[t].s
           resp == task'[t].out.resp
       IN
       (/\ task[t].op = "send"
        /\ task[t].pc = "read"
        /\ task'[t].pc = "done"
        /\ task'[t].out.kind = "ret")
       => \E r \in Results :
            LET used == IF r.usage = << >> THEN 0
                        ELSE r.usage[1] + r.usage[2] + r.usage[3]
                max == IF r.size = 0 THEN 200000 ELSE r.size
            IN
            /\ resp.content = r.result
            /\ r.session_id # NoSid => resp.session_id = r.session_id
            /\ resp.cost = r.cost_usd
            /\ resp.context_tokens_used = used
            /\ resp.context_tokens_max = max
            /\ (\/ \E k \in Keys : sessions'[k] = p
                \/ \E u \in Tasks : task'[u].s = p)
               => /\ sess'[p].context_tokens_used = used
                  /\ sess'[p].context_tokens_max = max
                  /\ sess'[p].total_cost = sess[p].total_cost + r.cost_usd
                  /\ sess'[p].message_count = sess[p].message_count + 1]_vars

C15_Witness ==
  \E t \in Tasks :
    /\ task[t].op = "send"
    /\ task[t].pc = "done"
    /\ task[t].out.kind = "ret"
    /\ task[t].out.resp.content = "Hello"
    /\ task[t].out.resp.session_id = "s1"
    /\ sessions[task[t].key] # NoProc
    /\ sess[sessions[task[t].key]].context_tokens_used = 50
    /\ sess[sessions[task[t].key]].context_tokens_max = 200000
    /\ sess[sessions[task[t].key]].total_cost = 2
    /\ sess[sessions[task[t].key]].message_count = 2

\* the statement of a storage call of caller c is executed by this step
Executes(c, op) == call[c].pc = "idle" /\ call'[c].op = op

\* C16: once set_user_active_session(u, t, s, p) has written, the table
\* answers get_user_active_session(u, t) with (s, p), for every user and
\* every thread, the absent one included.
C16_RoundTrip ==
  [][\A c \in Tasks :
       Executes(c, "set") =>
         Fetchone(store', call'[c].user_id, call'[c].thread_id)
           = <<call'[c].session_id, call'[c].project_path>>]_vars

\* C17: the absent thread and thread 0 are two keys: a write under one of
\* them, made when the other one has a pointer, leaves that pointer as it
\* was and is itself read back.
C17_NullAndZeroDistinct ==
  [][\A c \in Tasks :
       (/\ Executes(c, "set")
        /\ call'[c].thread_id \in {Null, 0}
        /\ Fetchone(store, call'[c].user_id,
                    IF call'[c].thread_id = Null THEN 0 ELSE Null)
             # NoPointer)
       =>
       /\ Fetchone(store', call'[c].user_id,
                   IF call'[c].thread_id = Null THEN 0 ELSE Null)
            = Fetchone(store, call'[c].user_id,
                       IF call'[c].thread_id = Null THEN 0 ELSE Null)
       /\ Fetchone(store', call'[c].user_id, call'[c].thread_id)
            = <<call'[c].session_id, call'[c].project_path>>]_vars

\* the rows of the table that conflict with key (u, th) are rows of that
\* key, as they are after writes under that key only
OwnRows(u, th) == Conflict(store, u, th) \subseteq Select(store, u, th)

\* C18: whatever set_user_active_session calls for one key have been
\* executed or are still to be committed, and in whatever order, a further
\* one leaves exactly one row for the key, with its own session id and
\* directory, and changes no other row; committing changes no row.  So no
\* write is duplicated and the row is the one of the last write.
C18_LastWriteWins ==
  [][\A c \in Tasks :
       /\ (Executes(c, "set")
             /\ OwnRows(call'[c].user_id, call'[c].thread_id))
          =>
          /\ Select(store', call'[c].user_id, call'[c].thread_id)
               = {Row(call'[c].user_id, call'[c].thread_id,
                      call'[c].session_id, call'[c].project_path)}
          /\ Cardinality(Conflict(store', call'[c].user_id,
                                  call'[c].thread_id)) = 1
          /\ store' \ Select(store', call'[c].user_id, call'[c].thread_id)
               = store \ Select(store, call'[c].user_id,
                                call'[c].thread_id)
       /\ (call[c].op = "set" /\ call[c].pc = "commit"
             /\ call'[c].pc = "done")
          => store' = store]_vars

\* two writes of different values under one key, neither committed yet: the
\* table holds the row of the later one only
C18_Witness ==
  /\ call[1].op = "set" /\ call[1].pc = "commit"
  /\ call[2].op = "set" /\ call[2].pc = "commit"
  /\ call[1].user_id = call[2].user_id
  /\ call[1].thread_id = call[2].thread_id
  /\ call[1].session_id # call[2].session_id
  /\ Cardinality(store) = 1
  /\ Select(store, call[1].user_id, call[1].thread_id)
       = {Row(call[2].user_id, call[2].thread_id, call[2].session_id,
              call[2].project_path)}

\* C19: once clear_user_active_session(u, t) has deleted, the table answers
\* get_user_active_session(u, t) with None; without a pointer of the key
\* the table is left as it was; deleting again would change nothing; and
\* the answer for every other (user, thread) key is the one it was.
C19_Clear ==
  [][\A c \in Tasks :
       Executes(c, "clear") =>
         /\ Fetchone(store', call'[c].user_id, call'[c].thread_id)
              = NoPointer
         /\ Fetchone(store, call'[c].user_id, call'[c].thread_id)
              = NoPointer => store' = store
         /\ Delete(store', call'[c].user_id, call'[c].thread_id) = store'
         /\ \A u \in Users, th \in ThreadIds :
              (u # call'[c].user_id \/ th # call'[c].thread_id)
                => Fetchone(store', u, th) = Fetchone(store, u, th)]_vars

\* a pointer written under a key has been cleared by another caller, and a
\* pointer of the same user under another thread is still there
C19_Witness ==
  /\ call[2].op = "set" /\ call[2].pc = "done"
  /\ call[1].op = "clear" /\ call[1].pc = "commit"
  /\ call[1].user_id = call[2].user_id
  /\ call[1].thread_id = call[2].thread_id
  /\ Fetchone(store, call[1].user_id, call[1].thread_id) = NoPointer
  /\ \E th \in ThreadIds :
       /\ th # call[1].thread_id
       /\ Fetchone(store, call[1].user_id, th) # NoPointer
  /\ Conflict(store, call[1].user_id, call[1].thread_id) = {}

\* C20: when end_session has ended the session of the context, and when
\* new_session has returned from clearing, the table answers
\* get_user_active_session(user, thread) with None, so that continue_session
\* after a restart finds no pointer to restore.
C20_EndDeletesPointer ==
  [][\A c \in Tasks :
       (/\ call[c].pc # "done" /\ call'[c].pc = "done"
        /\ \/ call'[c].op = "new"
           \/ call'[c].op = "end" /\ call'[c].session_id # NoSid)
       => Fetchone(store', call'[c].user_id, call'[c].thread_id)
            = NoPointer]_vars

\* the continue_session of caller c restores the pointer in this step
Restores(c) ==
  /\ call[c].pc = "idle"
  /\ call'[c].op = "continue"
  /\ call'[c].out # NoPointer

\* the directory lies in the approved directory: the components of its
\* resolved path start with those of the approved directory
Inside(name) ==
  LET p == resolve(PathOf(name))
      r == resolve(approved_directory)
  IN  Len(p) >= Len(r) /\ SubSeq(p, 1, Len(r)) = r

\* C21: a continue_session that restores a pointer keeps its session id; it
\* runs in the stored directory when that directory exists and lies in the
\* approved directory, and in the caller's current directory otherwise.
C21_ResumeDirectory ==
  [][\A c \in Tasks :
       Restores(c) =>
         /\ call'[c].session_id = call'[c].out[1]
         /\ user_data'[call'[c].user_id] = call'[c].out[1]
         /\ call'[c].project_path =
              IF exists(call'[c].out[2]) /\ Inside(call'[c].out[2])
              THEN call'[c].out[2]
              ELSE call'[c].current_dir]_vars

C23_DeadlineForResult ==
  \A t \in Tasks :
    task[t].pc = "read" => task[t].elapsed <= claude_timeout_seconds

\* the exchange of task t fails with error e in this step
FailsWith(t, e) ==
  /\ task[t].pc = "read"
  /\ task'[t].pc = "done"
  /\ task'[t].out.err = e

\* C24: when an exchange fails with the no-result error, the table is left
\* as it was if the process of the session is alive, and the session is no
\* longer registered if its process has exited.
C24_NoResultEntry ==
  [][\A t \in Tasks :
       FailsWith(t, "NoResult") =>
         /\ ReturncodeNone(Now, task[t].s) => sessions' = sessions
         /\ proc[task[t].s].state = "exited" =>
              \A k \in Keys : sessions'[k] # task[t].s]_vars

\* C25: however the removals of one key overlap, no call ends with the
\* KeyError of an entry that was already deleted, and no process is killed
\* by two calls at once.
C25_RemovedOnce ==
  /\ \A t \in Tasks : task[t].out.err # "KeyError"
  /\ \A p \in Procs : Kills(p) <= 1

\* C26: an interrupt_session called while an exchange on its key is in
\* flight returns in the same step, without waiting; the lock of every
\* session is held by whoever held it, and every other call, the exchange in
\* flight included, is where it was.
C26_InterruptTakesNoLock ==
  [][\A t \in Tasks :
       (/\ Calls(t, "interrupt")
        /\ \E u \in Tasks : InFlight(u) /\ task[u].key = task'[t].key)
       =>
       /\ task'[t].pc = "done"
       /\ task'[t].out.kind = "ret"
       /\ \A p \in Procs : sess'[p].lock = sess[p].lock
       /\ \A u \in Tasks \ {t} : task'[u] = task[u]]_vars

\* an interrupt has been sent to the process of an exchange that is in
\* flight and holds the lock of the session
C26_Witness ==
  \E t \in Tasks, u \in Tasks :
    /\ task[t].op = "interrupt"
    /\ task[t].pc = "done"
    /\ task[t].out.flag
    /\ InFlight(u)
    /\ task[u].key = task[t].key
    /\ task[u].s = task[t].out.session
    /\ sess[task[u].s].lock = u

\* session p is, after this step, the session it was before: it existed and
\* something still refers to it
Kept(p) ==
  /\ proc[p].state # "none"
  /\ \/ \E k \in Keys : sessions'[k] = p
     \/ \E u \in Tasks : \/ task'[u].s = p
                         \/ task'[u].kp = p
                         \/ task'[u].out.session = p

\* C27, as stated: no step makes any of the four counters of a session
\* smaller.
C27_CountersNeverDecrease ==
  [][\A p \in Procs :
       Kept(p) =>
         /\ sess'[p].context_tokens_used >= sess[p].context_tokens_used
         /\ sess'[p].context_tokens_max >= sess[p].context_tokens_max
         /\ sess'[p].total_cost >= sess[p].total_cost
         /\ sess'[p].message_count >= sess[p].message_count]_vars

\* C27, amended: no step makes total_cost or message_count of a session
\* smaller; context_tokens_used and context_tokens_max change only when an
\* exchange of the session completes, and are then the numbers of its
\* response.
C27_CostAndCountNeverDecrease ==
  [][\A p \in Procs :
       Kept(p) =>
         /\ sess'[p].total_cost >= sess[p].total_cost
         /\ sess'[p].message_count >= sess[p].message_count
         /\ (\/ sess'[p].context_tokens_used # sess[p].context_tokens_used
             \/ sess'[p].context_tokens_max # sess[p].context_tokens_max)
            => \E t \in Tasks :
                 /\ task[t].pc = "read" /\ task[t].s = p
                 /\ task'[t].out.kind = "ret"
                 /\ sess'[p].context_tokens_used
                      = task'[t].out.resp.context_tokens_used
                 /\ sess'[p].context_tokens_max
                      = task'[t].out.resp.context_tokens_max]_vars

\* a session after two completed exchanges, the first with 50 tokens used of
\* 200000 and cost 1, the second with no usage block, 100000 and cost 0
C27_Witness ==
  \E k \in Keys :
    /\ sessions[k] # NoProc
    /\ sess[sessions[k]].message_count = 2
    /\ sess[sessions[k]].total_cost = 1
    /\ sess[sessions[k]].context_tokens_used = 0
    /\ sess[sessions[k]].context_tokens_max = 100000
    /\ \E t \in Tasks : task[t].pc = "done" /\ task[t].out.resp.content = "Bye"

\* C28: the session_id of a session, once it is not empty, is the same after
\* every step, whatever session id the lines and result events read carry.
C28_SessionIdImmutable ==
  [][\A p \in Procs :
       (Kept(p) /\ sess[p].session_id # NoSid)
         => sess'[p].session_id = sess[p].session_id]_vars

\* an exchange has returned a response that carries another session id than
\* the one the session was launched with and still has
C28_Witness ==
  \E t \in Tasks :
    /\ task[t].pc = "done"
    /\ task[t].op = "send"
    /\ task[t].out.kind = "ret"
    /\ task[t].out.resp.session_id # NoSid
    /\ sessions[task[t].key] # NoProc
    /\ proc[sessions[task[t].key]].resume # NoSid
    /\ sess[sessions[task[t].key]].session_id
         = proc[sessions[task[t].key]].resume
    /\ sess[sessions[task[t].key]].session_id # task[t].out.resp.session_id
    /\ sess[sessions[task[t].key]].message_count > 0

\* C29: a readline() of the read loop takes one line from the pipe.  After a
\* blank line or a line that is not JSON the exchange is still reading and
\* the session is as it was; after a message that is not a result it is
\* still reading; after a result event the call returns the response built
\* from that event, and the lines behind it are left in the pipe.
C29_ReadLoop ==
  [][\A t \in Tasks :
       (/\ task[t].pc = "read"
        /\ proc[task[t].s].stdout # << >>
        /\ Len(proc'[task[t].s].stdout) < Len(proc[task[t].s].stdout))
       =>
       LET p == task[t].s
           line == Head(proc[p].stdout)
       IN
       /\ proc'[p].stdout = Tail(proc[p].stdout)
       /\ line.kind \in {"blank", "text"} =>
            task'[t].pc = "read" /\ sess'[p] = sess[p]
       /\ line.kind = "message" =>
            /\ task'[t].pc = "read"
            /\ Counters(sess'[p]) = Counters(sess[p])
       /\ line.kind = "result" =>
            /\ task'[t].pc = "done"
            /\ task'[t].out.kind = "ret"
            /\ task'[t].out.resp
                 = Response(NoteSessionId(sess[p], line.session_id),
                            line.event)]_vars

\* a call has returned the response of the first result event while another
\* result event, written before the call returned, is left in the pipe
C29_Witness ==
  \E t \in Tasks :
    /\ task[t].pc = "done"
    /\ task[t].out.kind = "ret"
    /\ sessions[task[t].key] # NoProc
    /\ proc[sessions[task[t].key]].stdout # << >>
    /\ \E i \in 1..Len(proc[sessions[task[t].key]].stdout) :
         LET line == proc[sessions[task[t].key]].stdout[i] IN
         /\ line.kind = "result"
         /\ line.event.result # task[t].out.resp.content

\* C30: from the write of a request line to a subprocess's stdin (line 184)
\* to the end of its drain (line 185), no other coroutine writes to the stdin
\* of the same subprocess: while a task is between write and drain on a
\* process it holds that session's lock, and no step makes another task write
\* to that process
C30_WritesNotInterleaved ==
  [][\A t \in Tasks :
       task[t].pc = "drain" =>
         /\ sess[task[t].s].lock = t
         /\ \A u \in Tasks \ {t} :
              ~(/\ task'[u].pc = "drain"
                /\ task[u].pc # "drain"
                /\ task'[u].s = task[t].s)
         /\ \A u \in Tasks \ {t} :
              task[u].pc = "drain" => task[u].s # task[t].s]_vars

\* a request is between write and drain on a process while another sender
\* of the same session waits for the lock
C30_Witness ==
  \E t \in Tasks, u \in Tasks :
    /\ t # u
    /\ task[t].pc = "drain"
    /\ task[u].pc = "lock_wait"
    /\ task[u].s = task[t].s
    /\ proc[task[t].s].state = "live"

\* the key the step of task t belongs to, when t takes a step
StepKey(t) == IF task[t].pc = "idle" THEN task'[t].key ELSE task[t].key

\* in this step only calls and subprocesses of keys other than k act
OthersStep(k) ==
  /\ \A t \in Tasks : task'[t] # task[t] => StepKey(t) # k
  /\ \A p \in Procs :
       (proc[p].state # "none" /\ proc[p].key = k) =>
         proc'[p].state = proc[p].state

\* C31: the sessions of different keys are independent.  A step of a call
\* or of a subprocess of another key (an exchange, a kill, a timeout, a
\* replacement) leaves the entry of key k, its process and its counters as
\* they are; and a send on k waits only for a lock held by a call on k, and
\* a kill on k only for a process of k.
C31_KeysIndependent ==
  [][\A k \in Keys :
       /\ OthersStep(k) =>
            /\ sessions'[k] = sessions[k]
            /\ sessions[k] # NoProc =>
                 /\ proc'[sessions[k]] = proc[sessions[k]]
                 /\ sess'[sessions[k]] = sess[sessions[k]]
       /\ \A t \in Tasks :
            (task[t].key = k /\ task[t].pc = "lock_wait"
               /\ sess[task[t].s].lock # 0)
            => task[sess[task[t].s].lock].key = k
       /\ \A t \in Tasks :
            (task[t].key = k /\ task[t].pc = "kill_wait")
            => proc[task[t].kp].key = k]_vars

\* the timeout handler of an exchange on one key is killing that key's
\* session while an exchange on the other key, sent after the first, is in
\* flight on its registered, live process
C31_Witness ==
  \E t \in Tasks, u \in Tasks :
    /\ task[t].key # task[u].key
    /\ task[t].pc = "kill_wait" /\ task[t].kret = "timeout"
    /\ task[u].pc = "read"
    /\ sessions[task[u].key] = task[u].s
    /\ proc[task[u].s].state = "live"
    /\ order = <<task[t].key, task[u].key>>

\* C32: when the exchange of continue_session yields a response, the pointer
\* of the (user, thread) of the command holds, from then on and once
\* committed, the session id of the response and the working directory the
\* exchange ran in; when the exchange fails or yields nothing, the table is
\* what it was.
C32_PointerFollowsExchange ==
  [][\A c \in Tasks :
       /\ (call[c].op = "continue" /\ call[c].pc = "run"
             /\ call'[c].pc = "commit")
          => Fetchone(store', call[c].user_id, call[c].thread_id)
               = <<call'[c].session_id, call[c].project_path>>
       /\ (call[c].op = "continue" /\ call[c].pc = "run"
             /\ call'[c].pc = "done")
          => store' = store
       /\ (call[c].op = "continue" /\ call[c].pc = "commit"
             /\ call'[c].pc = "done")
          => Fetchone(store', call[c].user_id, call[c].thread_id)
               = <<call[c].session_id, call[c].project_path>>]_vars

\* a command that restored a pointer ran in the restored directory, not the
\* one of its context, got a response with another session id, and the
\* pointer now holds that id and the restored directory
C32_Witness ==
  \E c \in Tasks :
    /\ call[c].op = "continue"
    /\ call[c].pc = "commit"
    /\ call[c].out # NoPointer
    /\ call[c].out[1] # call[c].session_id
    /\ call[c].project_path = call[c].out[2]
    /\ call[c].project_path # call[c].current_dir
    /\ Fetchone(store, call[c].user_id, call[c].thread_id)
         = <<call[c].session_id, call[c].project_path>>

\* C33: get_session_count is the number of active sessions: it equals the
\* number of entries get_all_sessions_info reports, which leaves out the
\* entries whose process has exited.
C33_CountMatchesInfo ==
  get_session_count = Cardinality(get_all_sessions_info)

\* task t runs a step of the timeout handler of its exchange: the call of
\* kill_session (line 247) or its end after process.wait()
TimeoutHandlerStep(t) ==
  \/ task[t].pc = "read" /\ task'[t].pc = "kill_wait"
       /\ task'[t].kret = "timeout"
  \/ task[t].pc = "read" /\ task'[t].pc = "done"
       /\ task'[t].out.err \in {"Timeout", "KeyError"}
  \/ task[t].pc = "kill_wait" /\ task[t].kret = "timeout"
       /\ task'[t].pc = "done"

\* C34: the timeout handler kills and removes only the session whose
\* exchange timed out: a step of the handler signals no process but that of
\* its session and removes no entry but that session's, so a newer session
\* registered under the same key is left alone.
C34_TimeoutSparesNewerSession ==
  [][\A t \in Tasks :
       TimeoutHandlerStep(t) =>
         \A p \in Procs \ {task[t].s} :
           /\ proc[p].state = "live" => proc'[p].state = "live"
           /\ \A k \in Keys : sessions[k] = p => sessions'[k] = p]_vars

\* C35: no orphaned process.  Whenever no kill and no launch is in progress,
\* every subprocess that has not exited is the process of the entry
\* registered under its key; and the entry kill_session deletes after
\* process.wait() is the entry of the process it killed.
C35_NoOrphan ==
  [][/\ (\A t \in Tasks : task[t].pc \notin {"launch", "kill_wait"}) =>
          \A k \in Keys : \A p \in Unexited(k) : sessions[k] = p
     /\ \A t \in Tasks :
          (task[t].pc = "kill_wait" /\ task'[t].pc # "kill_wait"
             /\ sessions'[task[t].kkey] # sessions[task[t].kkey])
          => sessions[task[t].kkey] = task[t].kp]_vars

\* session p has been killed or evicted: its entry is gone from the table
\* and its process was signalled or has exited
KilledOrEvicted(p) ==
  /\ \A k \in Keys : sessions[k] # p
  /\ proc[p].state \in {"dying", "exited"}

\* C36: send_message never writes a request line on a session that has
\* already been killed or evicted: a caller that got the session, waited for
\* its lock and takes it does not write when the session was killed in the
\* meantime.
C36_NoWriteToKilledSession ==
  [][\A t \in Tasks :
       (task[t].pc = "lock_wait" /\ task'[t].pc = "drain")
       => ~KilledOrEvicted(task[t].s)]_vars

\* the result events waiting in the pipe of process p
QueuedResults(q) == {i \in 1..Len(q) : q[i].kind = "result"}

\* C37: request/response pairing.  The subprocess answers each request with
\* one reply ending in one result event, in the order of the requests, so
\* the result of the exchange under way is the last one in the pipe.  The
\* result an exchange returns is that one: none is left behind it.  And an
\* exchange that ends with an error while its session stays registered on a
\* live process leaves no result event unread for a later exchange.
C37_Pairing ==
  [][\A t \in Tasks :
       /\ (task[t].pc = "read" /\ task'[t].pc = "done"
             /\ task'[t].out.kind = "ret")
          => QueuedResults(proc'[task[t].s].stdout) = {}
       /\ (task[t].pc = "read" /\ task'[t].pc = "done"
             /\ task'[t].out.kind = "err"
             /\ sessions'[task[t].key] = task[t].s
             /\ proc'[task[t].s].state = "live")
          => QueuedResults(proc'[task[t].s].stdout) = {}]_vars

\* C40: no single reply line aborts an exchange.  When the read loop takes a
\* line that is not a result event (blank, malformed, JSON that is not an
\* object, an object of another type or of none), the exchange goes on
\* reading.
C40_NoLineAborts ==
  [][\A t \in Tasks :
       (/\ task[t].pc = "read"
        /\ proc[task[t].s].stdout # << >>
        /\ Len(proc'[task[t].s].stdout) < Len(proc[task[t].s].stdout)
        /\ Head(proc[task[t].s].stdout).kind # "result")
       => task'[t].pc = "read"]_vars

\* C38: when send_message for a key has returned a response with a session
\* id and the process of the key is alive, a following send_message for the
\* key with the session's working directory and that session id takes the
\* reuse branch of get_or_create_session (no kill, no launch), whatever id
\* the subprocess reported.
C38_ResponseIdReuses ==
  \A t \in Tasks :
    LET p == sessions[task[t].key] IN
    (/\ task[t].pc = "done"
     /\ task[t].op = "send"
     /\ task[t].out.kind = "ret"
     /\ task[t].out.resp.session_id # NoSid
     /\ p # NoProc
     /\ proc[p].state = "live")
    => GocDecide(Now, task[t].key, sess[p].working_directory,
                 task[t].out.resp.session_id) = "reuse"

\* C39: when the launch of the subprocess fails in get_or_create_session,
\* the error reaches the caller and the call registers nothing: the table is
\* what it was, every entry in it is of a process that was started, and the
\* entry the call killed or evicted to replace it is not in the table.
C39_FailedLaunchRegistersNothing ==
  [][\A t \in Tasks :
       (task[t].pc = "launch" /\ task'[t].pc = "done")
       =>
       (task'[t].out.err = "LaunchError" =>
          /\ task'[t].out.kind = "err"
          /\ task'[t].out.session = NoProc
          /\ sessions' = sessions
          /\ \A k \in Keys :
               sessions'[k] # NoProc =>
                 /\ proc'[sessions'[k]].state # "none"
                 /\ sessions'[k] # task[t].kp)]_vars

\* the launch of a replacement has failed: the call has ended with the
\* launch error, the process it killed has exited with an exchange of
\* another caller still on it, and the key has no entry
C39_Witness ==
  \E t \in Tasks, u \in Tasks :
    /\ t # u
    /\ task[t].pc = "done"
    /\ task[t].out.err = "LaunchError"
    /\ task[u].pc \in {"drain", "read"}
    /\ proc[task[u].s].key = task[t].key
    /\ proc[task[u].s].state = "exited"
    /\ sessions[task[t].key] = NoProc

====
